---- MODULE Spec2Model ----
(***************************************************************************)
(* The fetch-request codec of crates/herm/src/request/fetch.rs:           *)
(* Fetch::new, Fetch::from_bytes, Fetch::to_bytes and Fetch::size.        *)
(*                                                                         *)
(* Representation.  TLC's integers are 32 bits wide, so the wide integer  *)
(* types of the code are written as big-endian sequences of 16-bit limbs: *)
(* a u32 is <<hi, lo>>, a u64 and a usize (64-bit target) are             *)
(* <<l3, l2, l1, l0>>; a u16 and a byte are plain integers.  A byte       *)
(* string (String, Bytes, BytesMut) is a sequence of bytes 0..255; the    *)
(* element BLOCK is not a byte, it stands for 2^32 consecutive bytes 'X', *)
(* which is how a topic of 4 GiB or more is written.                      *)
(***************************************************************************)
EXTENDS Integers, Sequences, FiniteSets, TLC

VARIABLES
    input,      \* what the caller starts from: arguments of new, or a buffer
    pc,         \* position of the caller / of from_bytes
    call,       \* the function that produced `result`
    result,     \* Result<Fetch, FetchCreationError> of the last finished call
    wire,       \* Option: the Bytes returned by to_bytes
    capacity,   \* Option: the capacity to_bytes reserved, self.size()
    encoded,    \* Option: the Fetch to_bytes was called on, and where it came from
    arg,        \* the buffer from_bytes was called with
    bytes,      \* from_bytes: the cursor `bytes` (what remains)
    topic_len,  \* from_bytes: local topic_len
    topic,      \* from_bytes: local topic
    partition,  \* from_bytes: field partition, once read
    offset,     \* from_bytes: field offset, once read
    reads       \* from_bytes: log of the reads made on the cursor

vars == <<input, pc, call, result, wire, capacity, encoded, arg, bytes,
          topic_len, topic, partition, offset, reads>>

---------------------------------------------------------------------------
(* Bounds of the model *)

\* longest topic region of the generated input buffers
MaxTopicLen == 2
\* most bytes appended after a well-framed buffer
MaxExtra == 2

---------------------------------------------------------------------------
(* Integers of fixed width *)

Limb == 256 * 256

\* u16::MAX
U16_MAX == 65535

\* the element of a byte string that stands for 2^32 bytes 'X'
BLOCK == 256

\* a small natural number as a u32 / as a usize
U32(n) == <<n \div Limb, n % Limb>>
USize(n) == <<0, 0, n \div Limb, n % Limb>>

\* a < b on limb sequences of one width
LimbLt(a, b) ==
    \E i \in 1..Len(a) : a[i] < b[i] /\ \A j \in 1..(i - 1) : a[j] = b[j]

\* a + b on usize, wrapping at 2^64
UAdd(a, b) ==
    LET s4 == a[4] + b[4]
        s3 == a[3] + b[3] + (s4 \div Limb)
        s2 == a[2] + b[2] + (s3 \div Limb)
        s1 == a[1] + b[1] + (s2 \div Limb)
    IN  <<s1 % Limb, s2 % Limb, s3 % Limb, s4 % Limb>>

\* `x as u32` and `x as u16` of a usize; `x as usize` of a u16
AsU32(n) == <<n[3], n[4]>>
AsU16(n) == n[4]
U16AsUSize(v) == <<0, 0, 0, v>>

\* str::len, Bytes::len, Buf::remaining: the number of bytes, a usize
ByteLen(s) ==
    LET k == Cardinality({i \in DOMAIN s : s[i] = BLOCK})
        m == Len(s) - k
    IN  <<k \div Limb, k % Limb, m \div Limb, m % Limb>>

---------------------------------------------------------------------------
(* The bytes crate: BufMut writes and Buf reads, all big-endian *)

\* a put_u16 that writes the low byte first
put_u16_le(buf, n) == buf \o <<n % 256, n \div 256>>

\* BufMut::put_u16(n), put_u32(n), put_u64(n), put(src): append to buf
put_u16(buf, n) == buf \o <<n \div 256, n % 256>>
put_u32(buf, n) == put_u16(put_u16(buf, n[1]), n[2])
put_u64(buf, n) == put_u16(put_u16(put_u16(put_u16(buf, n[1]), n[2]), n[3]), n[4])
put(buf, src) == buf \o src

\* a get_u32 and a get_u64 that take the 16-bit halves in the wrong order
get_u32_swapped(b) == <<b[3] * 256 + b[4], b[1] * 256 + b[2]>>
get_u64_swapped(b) ==
    <<b[7] * 256 + b[8], b[5] * 256 + b[6], b[3] * 256 + b[4], b[1] * 256 + b[2]>>

\* Buf::get_u16, get_u32, get_u64: the value at the front of the cursor b
get_u16(b) == b[1] * 256 + b[2]
get_u32(b) == <<get_u16(SubSeq(b, 1, 2)), get_u16(SubSeq(b, 3, 4))>>
get_u64(b) == <<get_u16(SubSeq(b, 1, 2)), get_u16(SubSeq(b, 3, 4)),
                get_u16(SubSeq(b, 5, 6)), get_u16(SubSeq(b, 7, 8))>>

\* Buf::remaining, and whether a read of n bytes finds them (else it panics)
remaining(b) == ByteLen(b)
CanRead(b, n) == ~LimbLt(remaining(b), n)

\* the cursor after n bytes were consumed (n a usize below 2^31)
ToInt(n) == n[3] * Limb + n[4]
advance(b, n) == SubSeq(b, ToInt(n) + 1, Len(b))

\* Bytes::slice(0..n).to_vec()
slice(b, n) == SubSeq(b, 1, ToInt(n))

---------------------------------------------------------------------------
(* String::from_utf8: the well-formed UTF-8 byte sequences *)

IsCont(x) == x \in 128..191

\* UTF8_CHAR_WIDTH: bytes of the character a first byte starts, 0 if none
Utf8Width(x) ==
    IF x < 128 THEN 1
    ELSE IF x \in 194..223 THEN 2
    ELSE IF x \in 224..239 THEN 3
    ELSE IF x \in 240..244 THEN 4
    ELSE 0

\* the range of the second byte after first byte x
SecondOk(x, y) ==
    IF x = 224 THEN y \in 160..191
    ELSE IF x = 237 THEN y \in 128..159
    ELSE IF x = 240 THEN y \in 144..191
    ELSE IF x = 244 THEN y \in 128..143
    ELSE IsCont(y)

\* every first byte starts a whole character, every other byte belongs to one
Utf8Valid(v) ==
    \A i \in 1..Len(v) :
        IF IsCont(v[i])
        THEN \E k \in 1..3 :
                /\ i - k >= 1
                /\ Utf8Width(v[i - k]) > k
                /\ \A j \in (i - k + 1)..(i - 1) : IsCont(v[j])
        ELSE LET w == Utf8Width(v[i])
             IN  /\ w > 0
                 /\ i + w - 1 <= Len(v)
                 /\ \A j \in (i + 1)..(i + w - 1) : IsCont(v[j])
                 /\ w > 1 => SecondOk(v[i], v[i + 1])

---------------------------------------------------------------------------
(* Results and options *)

Ok(f) == [tag |-> "Ok", val |-> f]
Err(e) == [tag |-> "Err", err |-> e]
None == [tag |-> "None"]
Some(x) == [tag |-> "Some", val |-> x]

---------------------------------------------------------------------------
(* Fetch *)

\* Fetch::new: the test of the topic's length
TopicTooLong(a_topic) == LimbLt(<<0, U16_MAX>>, AsU32(ByteLen(a_topic)))

\* Fetch::new
new(a_topic, a_partition, a_offset, a_size) ==
    IF TopicTooLong(a_topic)
    THEN Err("TopicTooLong")
    ELSE Ok([topic |-> a_topic, partition |-> a_partition,
             offset |-> a_offset, size |-> a_size])

\* a size that forgets the width of the last field
size_short(self) ==
    UAdd(UAdd(UAdd(USize(2), ByteLen(self.topic)), USize(4)), USize(8))

\* Fetch::size
size(self) ==
    UAdd(UAdd(UAdd(UAdd(USize(2), ByteLen(self.topic)), USize(4)), USize(8)), USize(4))

\* a to_bytes that writes offset before partition
to_bytes_reordered(self) ==
    put_u32(put_u32(put_u64(put(put_u16(<<>>, AsU16(ByteLen(self.topic))),
        self.topic), self.offset), self.partition), self.size)

\* Fetch::to_bytes
to_bytes(self) ==
    LET b0 == <<>>
        b1 == put_u16(b0, AsU16(ByteLen(self.topic)))
        b2 == put(b1, self.topic)
        b3 == put_u32(b2, self.partition)
        b4 == put_u64(b3, self.offset)
        b5 == put_u32(b4, self.size)
    IN  b5

\* a length test that refuses only buffers that are too short, and one that
\* refuses only buffers that are too long
LenMismatch_short(b, n) ==
    LimbLt(ByteLen(b), UAdd(UAdd(UAdd(n, USize(4)), USize(8)), USize(4)))
LenMismatch_long(b, n) ==
    LimbLt(UAdd(UAdd(UAdd(n, USize(4)), USize(8)), USize(4)), ByteLen(b))

\* Fetch::from_bytes: the two tests it makes before reading
PrefixMissing(b) == LimbLt(remaining(b), USize(2))
LenMismatch(b, n) ==
    ByteLen(b) # UAdd(UAdd(UAdd(n, USize(4)), USize(8)), USize(4))

---------------------------------------------------------------------------
(* The inputs of a run *)

\* "test", as in the tests of the code
Test == <<116, 101, 115, 116>>

\* n bytes 'X'
Xs(n) == [i \in 1..n |-> 88]

\* topics handed to Fetch::new (a String: well-formed UTF-8), among them
\* topics of 2^32 bytes and of 2^32 + 4 bytes
Topics ==
    { <<>>, Test, <<195, 169>>, <<226, 130, 172, 116>>, <<BLOCK>>,
      <<BLOCK>> \o Test }

\* a topic whose length takes both bytes of the prefix, the longest topic a
\* u16 prefix can count, and the next longer one
LongTopics == { Xs(300), Xs(U16_MAX), Xs(U16_MAX + 1) }

Partitions == { U32(0), U32(6), <<65535, 65535>> }
Offsets == { USize(0), USize(8), <<258, 772, 1286, 1800>> }
Sizes == { U32(1024), U32(3) }

\* bytes of the generated topic regions: ASCII, a continuation byte, the first
\* byte of a two-byte character
SampleBytes == { 116, 128, 195 }
RawTopics == UNION { [1..n -> SampleBytes] : n \in 0..MaxTopicLen }

\* a well-framed buffer around a topic region t, and all of its prefixes and
\* extensions by up to MaxExtra bytes
Frame(t, p, o, s) ==
    <<Len(t) \div 256, Len(t) % 256>> \o t
        \o <<p[1] \div 256, p[1] % 256, p[2] \div 256, p[2] % 256>>
        \o <<o[1] \div 256, o[1] % 256, o[2] \div 256, o[2] % 256,
             o[3] \div 256, o[3] % 256, o[4] \div 256, o[4] % 256>>
        \o <<s[1] \div 256, s[1] % 256, s[2] \div 256, s[2] % 256>>
Frames ==
    { Frame(t, p, o, s) : t \in RawTopics, p \in {U32(6), <<65535, 65535>>},
                          o \in {USize(8), <<258, 772, 1286, 1800>>},
                          s \in {U32(3)} }
Cuts(f) ==
    { SubSeq(f \o [i \in 1..MaxExtra |-> 0], 1, k) : k \in 0..(Len(f) + MaxExtra) }

\* buffers written out byte by byte: those of the tests of the code, and
\* topic regions that are not well-formed UTF-8 (a lone 0xFF, an overlong
\* form, a surrogate, a code point above U+10FFFF, a cut character) or are
\* (a four-byte character), and a prefix that says 256 with no topic
Tail16 == <<0, 0, 0, 6, 0, 0, 0, 0, 0, 0, 0, 8, 0, 0, 0, 3>>
SampleBuffers ==
    { <<0, 4>>,
      <<0, 4>> \o Test,
      <<0, 4>> \o Test \o SubSeq(Tail16, 1, 4),
      <<0, 4>> \o Test \o SubSeq(Tail16, 1, 12),
      <<0, 4>> \o Test \o Tail16,
      <<0, 1, 255>> \o Tail16,
      <<0, 2, 192, 128>> \o Tail16,
      <<0, 3, 224, 128, 128>> \o Tail16,
      <<0, 3, 237, 160, 128>> \o Tail16,
      <<0, 3, 226, 130, 172>> \o Tail16,
      <<0, 4, 240, 159, 152, 128>> \o Tail16,
      <<0, 4, 244, 144, 128, 128>> \o Tail16,
      <<0, 4, 116, 226, 130, 116>> \o Tail16,
      <<1, 0>> \o Tail16,
      <<255, 255>> \o Tail16 }

Buffers == SampleBuffers \cup UNION { Cuts(f) : f \in Frames }

\* every topic with every choice of the other fields, the long topics with
\* one choice
Inputs ==
    { [kind |-> "new", topic |-> t, partition |-> p, offset |-> o, size |-> s] :
        t \in Topics, p \in Partitions, o \in Offsets, s \in Sizes }
    \cup { [kind |-> "new", topic |-> t, partition |-> U32(6),
            offset |-> <<258, 772, 1286, 1800>>, size |-> U32(1024)] :
            t \in LongTopics }
    \cup { [kind |-> "bytes", bytes |-> b] : b \in Buffers }

---------------------------------------------------------------------------
(* The caller *)

Init ==
    /\ input \in Inputs
    /\ pc = "start"
    /\ call = "none"
    /\ result = None
    /\ wire = None
    /\ capacity = None
    /\ encoded = None
    /\ arg = <<>>
    /\ bytes = <<>>
    /\ topic_len = USize(0)
    /\ topic = <<>>
    /\ partition = U32(0)
    /\ offset = USize(0)
    /\ reads = <<>>

decode_vars == <<arg, bytes, topic_len, topic, partition, offset, reads>>

\* the caller calls Fetch::new on its arguments
CallNew ==
    /\ pc = "start"
    /\ input.kind = "new"
    /\ result' = new(input.topic, input.partition, input.offset, input.size)
    /\ call' = "new"
    /\ pc' = "idle"
    /\ UNCHANGED <<input, wire, capacity, encoded, decode_vars>>

\* the caller calls to_bytes on the Fetch it holds
CallToBytes ==
    /\ pc = "idle"
    /\ result.tag = "Ok"
    /\ capacity' = Some(size(result.val))
    /\ wire' = Some(to_bytes(result.val))
    /\ encoded' = Some([val |-> result.val, call |-> call, arg |-> arg])
    /\ UNCHANGED <<input, pc, call, result, decode_vars>>

\* entry of from_bytes with buffer b
Enter(b) ==
    /\ arg' = b
    /\ bytes' = b
    /\ topic_len' = USize(0)
    /\ topic' = <<>>
    /\ partition' = U32(0)
    /\ offset' = USize(0)
    /\ reads' = <<>>
    /\ pc' = "check_prefix"
    /\ UNCHANGED <<input, call, result, wire, capacity, encoded>>

\* the caller calls from_bytes on a buffer it received
CallFromBytesInput ==
    /\ pc = "start"
    /\ input.kind = "bytes"
    /\ Enter(input.bytes)

\* the caller calls from_bytes on the buffer to_bytes returned
CallFromBytesWire ==
    /\ pc = "idle"
    /\ wire.tag = "Some"
    /\ Enter(wire.val)

---------------------------------------------------------------------------
(* Fetch::from_bytes, statement by statement *)

\* return Err(MalformedBytes)
ReturnMalformed ==
    /\ result' = Err("MalformedBytes")
    /\ call' = "from_bytes"
    /\ pc' = "idle"

\* a read of `need` bytes by `op` is logged with what remained before it
Logged(op, need) ==
    Append(reads, [op |-> op, need |-> need, had |-> remaining(bytes)])

\* if bytes.remaining() < 2 { return Err(MalformedBytes) }
CheckPrefix ==
    /\ pc = "check_prefix"
    /\ IF PrefixMissing(bytes)
       THEN ReturnMalformed
       ELSE pc' = "get_topic_len" /\ UNCHANGED <<call, result>>
    /\ UNCHANGED <<input, wire, capacity, encoded, decode_vars>>

\* let topic_len = bytes.get_u16() as usize
GetTopicLen ==
    /\ pc = "get_topic_len"
    /\ reads' = Logged("get_u16", USize(2))
    /\ IF CanRead(bytes, USize(2))
       THEN /\ topic_len' = U16AsUSize(get_u16(bytes))
            /\ bytes' = advance(bytes, USize(2))
            /\ pc' = "check_len"
       ELSE /\ pc' = "panicked"
            /\ UNCHANGED <<topic_len, bytes>>
    /\ UNCHANGED <<input, call, result, wire, capacity, encoded, arg, topic,
                   partition, offset>>

\* if bytes.len() != topic_len + 4 + 8 + 4 { return Err(MalformedBytes) }
CheckLen ==
    /\ pc = "check_len"
    /\ IF LenMismatch(bytes, topic_len)
       THEN ReturnMalformed
       ELSE pc' = "decode_topic" /\ UNCHANGED <<call, result>>
    /\ UNCHANGED <<input, wire, capacity, encoded, decode_vars>>

\* let topic = String::from_utf8(bytes.slice(0..topic_len).to_vec())
\*     .map_err(|_| MalformedBytes)?
DecodeTopic ==
    /\ pc = "decode_topic"
    /\ reads' = Logged("slice", topic_len)
    /\ IF ~CanRead(bytes, topic_len)
       THEN pc' = "panicked" /\ UNCHANGED <<call, result, topic>>
       ELSE IF Utf8Valid(slice(bytes, topic_len))
       THEN /\ topic' = slice(bytes, topic_len)
            /\ pc' = "advance"
            /\ UNCHANGED <<call, result>>
       ELSE ReturnMalformed /\ UNCHANGED topic
    /\ UNCHANGED <<input, wire, capacity, encoded, arg, bytes, topic_len,
                   partition, offset>>

\* bytes.advance(topic_len)
Advance ==
    /\ pc = "advance"
    /\ reads' = Logged("advance", topic_len)
    /\ IF CanRead(bytes, topic_len)
       THEN bytes' = advance(bytes, topic_len) /\ pc' = "get_partition"
       ELSE pc' = "panicked" /\ UNCHANGED bytes
    /\ UNCHANGED <<input, call, result, wire, capacity, encoded, arg,
                   topic_len, topic, partition, offset>>

\* partition: bytes.get_u32()
GetPartition ==
    /\ pc = "get_partition"
    /\ reads' = Logged("get_u32", USize(4))
    /\ IF CanRead(bytes, USize(4))
       THEN /\ partition' = get_u32(bytes)
            /\ bytes' = advance(bytes, USize(4))
            /\ pc' = "get_offset"
       ELSE pc' = "panicked" /\ UNCHANGED <<partition, bytes>>
    /\ UNCHANGED <<input, call, result, wire, capacity, encoded, arg,
                   topic_len, topic, offset>>

\* offset: bytes.get_u64()
GetOffset ==
    /\ pc = "get_offset"
    /\ reads' = Logged("get_u64", USize(8))
    /\ IF CanRead(bytes, USize(8))
       THEN /\ offset' = get_u64(bytes)
            /\ bytes' = advance(bytes, USize(8))
            /\ pc' = "get_size"
       ELSE pc' = "panicked" /\ UNCHANGED <<offset, bytes>>
    /\ UNCHANGED <<input, call, result, wire, capacity, encoded, arg,
                   topic_len, topic, partition>>

\* size: bytes.get_u32(), and Ok(Fetch { topic, partition, offset, size })
GetSize ==
    /\ pc = "get_size"
    /\ reads' = Logged("get_u32", USize(4))
    /\ IF CanRead(bytes, USize(4))
       THEN /\ result' = Ok([topic |-> topic, partition |-> partition,
                             offset |-> offset, size |-> get_u32(bytes)])
            /\ call' = "from_bytes"
            /\ bytes' = advance(bytes, USize(4))
            /\ pc' = "idle"
       ELSE pc' = "panicked" /\ UNCHANGED <<call, result, bytes>>
    /\ UNCHANGED <<input, wire, capacity, encoded, arg, topic_len, topic,
                   partition, offset>>

Next ==
    \/ CallNew
    \/ CallToBytes
    \/ CallFromBytesInput
    \/ CallFromBytesWire
    \/ CheckPrefix
    \/ GetTopicLen
    \/ CheckLen
    \/ DecodeTopic
    \/ Advance
    \/ GetPartition
    \/ GetOffset
    \/ GetSize

Spec == Init /\ [][Next]_vars

---------------------------------------------------------------------------
(* What the properties are stated with *)

\* function f has just returned to the caller
Returned(f) == pc = "idle" /\ call = f

\* a byte string of more than 65535 bytes
Long(t) == (\E i \in DOMAIN t : t[i] = BLOCK) \/ Len(t) > U16_MAX

\* the big-endian value of the two bytes of b at i, and the big-endian bytes
\* of a u16, a u32 and a u64
Word(b, i) == b[i] * 256 + b[i + 1]
BE2(n) == <<n \div 256, n % 256>>
BE4(v) == BE2(v[1]) \o BE2(v[2])
BE8(v) == BE2(v[1]) \o BE2(v[2]) \o BE2(v[3]) \o BE2(v[4])

\* the Fetch whose fields are the arguments the caller started from
InputFetch ==
    [topic |-> input.topic, partition |-> input.partition,
     offset |-> input.offset, size |-> input.size]

\* the buffer of the test of the code that decodes, and its Fetch
WorksBuffer == <<0, 4>> \o Test \o Tail16
WorksFetch ==
    [topic |-> Test, partition |-> U32(6), offset |-> USize(8), size |-> U32(3)]

\* the 22 bytes of the request (topic "test", partition 0, offset 0, size 1024)
ScenarioBytes ==
    <<0, 4>> \o Test \o <<0, 0, 0, 0>> \o <<0, 0, 0, 0, 0, 0, 0, 0>> \o <<0, 0, 4, 0>>
ScenarioFetch ==
    [topic |-> Test, partition |-> U32(0), offset |-> USize(0), size |-> U32(1024)]
IsScenario == input.kind = "new" /\ InputFetch = ScenarioFetch

---------------------------------------------------------------------------
(* The properties *)

\* C1: round trip. For a topic of at most 65535 bytes, from_bytes of the
\* to_bytes of the Fetch that new made of the arguments returns Ok with the
\* topic, partition, offset and size that were given to new.
C1_RoundTrip ==
    (input.kind = "new" /\ Returned("from_bytes") /\ ~Long(input.topic))
        => /\ result.tag = "Ok"
           /\ result.val.topic = input.topic
           /\ result.val.partition = input.partition
           /\ result.val.offset = input.offset
           /\ result.val.size = input.size

\* C1, its case: the round trip of a topic of 300 bytes, whose prefix is
\* 01 2C, has finished
C1_Witness ==
    /\ input.kind = "new"
    /\ Returned("from_bytes")
    /\ Len(input.topic) = 300
    /\ arg = wire.val
    /\ SubSeq(arg, 1, 2) = <<1, 44>>
    /\ result.tag = "Ok"

\* C2: size identity. For a Fetch from new or from from_bytes, size() is
\* 18 + the topic's byte length and is the length of what to_bytes returns,
\* so the capacity to_bytes reserves is the number of bytes it writes.
C2_SizeIdentity ==
    wire.tag = "Some"
        => /\ encoded.val.call \in {"new", "from_bytes"}
           /\ capacity.val = UAdd(ByteLen(encoded.val.val.topic), USize(18))
           /\ capacity.val = ByteLen(wire.val)

\* C2, its case: "test" was encoded, 22 bytes reserved and written
C2_Witness ==
    /\ wire.tag = "Some"
    /\ encoded.val.call = "new"
    /\ encoded.val.val.topic = Test
    /\ capacity.val = USize(22)
    /\ Len(wire.val) = 22

\* C3: new returns Err(TopicTooLong) whenever the topic has more than 65535
\* bytes, and otherwise Ok with the four arguments as the four fields.
C3_NewContract ==
    (input.kind = "new" /\ Returned("new"))
        => IF Long(input.topic)
           THEN result = Err("TopicTooLong")
           ELSE result = Ok(InputFetch)

\* the buffers C4 says are accepted
C4_Accepts(b) ==
    /\ \A i \in DOMAIN b : b[i] # BLOCK
    /\ Len(b) >= 2
    /\ Len(b) - 2 = Word(b, 1) + 16
    /\ Utf8Valid(SubSeq(b, 3, 2 + Word(b, 1)))

\* C4: from_bytes returns Ok exactly when the buffer has its two prefix
\* bytes, exactly topic_len + 16 bytes after them, and a well-formed UTF-8
\* topic region; in every other case it returns Err(MalformedBytes).
C4_DecodeContract ==
    Returned("from_bytes")
        => IF C4_Accepts(arg)
           THEN result.tag = "Ok"
           ELSE result = Err("MalformedBytes")

\* C4, its case: a buffer with a well-formed topic and one byte too many
\* was refused
C4_Witness ==
    /\ Returned("from_bytes")
    /\ Len(arg) = 21
    /\ Len(arg) = Word(arg, 1) + 19
    /\ Word(arg, 1) = 2
    /\ Utf8Valid(SubSeq(arg, 3, 4))
    /\ result = Err("MalformedBytes")

\* C5: from_bytes never panics: it returns Ok or Err(MalformedBytes), never
\* TopicTooLong, and each read it makes on the cursor (get_u16, slice,
\* advance, get_u32, get_u64, get_u32) finds the bytes it needs.
C5_NoPanic ==
    /\ pc # "panicked"
    /\ Returned("from_bytes") => (result.tag = "Ok" \/ result = Err("MalformedBytes"))
    /\ \A i \in DOMAIN reads : ~LimbLt(reads[i].had, reads[i].need)

\* C5, its case: all six reads were made, in the order of the code, on a
\* buffer with a topic
C5_Witness ==
    /\ Returned("from_bytes")
    /\ result.tag = "Ok"
    /\ [i \in DOMAIN reads |-> reads[i].op]
         = <<"get_u16", "slice", "advance", "get_u32", "get_u64", "get_u32">>
    /\ reads[2].need = USize(4)
    /\ reads[6].had = USize(4)

\* C6: to_bytes is the 2-byte big-endian topic byte length, the topic bytes,
\* partition in 4, offset in 8 and size in 4 big-endian bytes, nothing else.
C6_WireLayout ==
    wire.tag = "Some"
        => /\ ~Long(encoded.val.val.topic)
           /\ wire.val = BE2(Len(encoded.val.val.topic))
                            \o encoded.val.val.topic
                            \o BE4(encoded.val.val.partition)
                            \o BE8(encoded.val.val.offset)
                            \o BE4(encoded.val.val.size)

\* C7: when from_bytes succeeds on b with prefix n, topic is b[2 .. 2+n],
\* partition, offset and size are the big-endian values of the next 4, 8 and
\* 4 bytes, and the whole buffer has been consumed.
C7_DecodedFields ==
    (Returned("from_bytes") /\ result.tag = "Ok")
        => LET n == Word(arg, 1)
           IN  /\ Len(arg) = 18 + n
               /\ result.val.topic = SubSeq(arg, 3, 2 + n)
               /\ result.val.partition = <<Word(arg, 3 + n), Word(arg, 5 + n)>>
               /\ result.val.offset = <<Word(arg, 7 + n), Word(arg, 9 + n),
                                        Word(arg, 11 + n), Word(arg, 13 + n)>>
               /\ result.val.size = <<Word(arg, 15 + n), Word(arg, 17 + n)>>
               /\ bytes = <<>>
               /\ (arg = WorksBuffer => result.val = WorksFetch)

\* C7, its case: the buffer of the test of the code was decoded
C7_Witness ==
    /\ input.kind = "bytes"
    /\ Returned("from_bytes")
    /\ arg = WorksBuffer
    /\ result = Ok(WorksFetch)

\* C8 as stated: the request ("test", 0, 0, 1024) encodes to the bytes
\* 00 04 "test" 00000000 0000000000000000 00000400, 18 bytes in total, and
\* decoding them gives the fields back.
C8_Scenario18 ==
    /\ (IsScenario /\ wire.tag = "Some")
          => (wire.val = ScenarioBytes /\ Len(wire.val) = 18)
    /\ (IsScenario /\ Returned("from_bytes")) => result = Ok(ScenarioFetch)

\* C8 as amended: the same bytes, which are 22 bytes in total, and decoding
\* them gives the fields back.
C8_Scenario22 ==
    /\ (IsScenario /\ wire.tag = "Some")
          => (wire.val = ScenarioBytes /\ Len(wire.val) = 22)
    /\ (IsScenario /\ Returned("from_bytes")) => result = Ok(ScenarioFetch)

\* C8, its case: the request was encoded and decoded again
C8_Witness ==
    /\ IsScenario
    /\ Returned("from_bytes")
    /\ arg = ScenarioBytes
    /\ result.tag = "Ok"

\* C9: every Fetch that new or from_bytes returns has a topic of at most
\* 65535 bytes, so the prefix to_bytes writes is the topic's true length.
C9_TopicLenInvariant ==
    /\ (pc = "idle" /\ result.tag = "Ok") => ~Long(result.val.topic)
    /\ wire.tag = "Some"
          => /\ ~Long(encoded.val.val.topic)
             /\ Word(wire.val, 1) = Len(encoded.val.val.topic)

\* the Fetch values new makes of every topic of Topics with every choice of
\* the other fields
SampleFetches ==
    { [topic |-> t, partition |-> p, offset |-> o, size |-> s] :
        t \in { u \in Topics : ~TopicTooLong(u) },
        p \in Partitions, o \in Offsets, s \in Sizes }
ToBytesInjective ==
    \A f \in SampleFetches : \A g \in SampleFetches :
        to_bytes(f) = to_bytes(g) => f = g

\* C10: canonical encoding. to_bytes of the Fetch that from_bytes made of a
\* buffer is that buffer, byte for byte; and to_bytes maps different Fetch
\* values to different buffers.
C10_Canonical ==
    /\ (wire.tag = "Some" /\ encoded.val.call = "from_bytes")
          => wire.val = encoded.val.arg
    /\ ToBytesInjective

\* C10, its case: a received buffer with a two-byte character as its topic
\* was decoded and encoded again
C10_Witness ==
    /\ input.kind = "bytes"
    /\ wire.tag = "Some"
    /\ encoded.val.call = "from_bytes"
    /\ encoded.val.val.topic = <<195, 128>>
    /\ wire.val = input.bytes

====
